---- MODULE Spec2Model ----
(***************************************************************************)
(* State machine of the browser client in src/unnamed/part_000 (App.js):   *)
(* AuthProvider (token, user, loading, localStorage), ProtectedRoute, the  *)
(* router, the Login and Register pages, the Dashboard page (loads,        *)
(* selection, bot run) and the Accounts, Strategies and TradingHistory     *)
(* pages.  Every await of the source is a point at which other callbacks   *)
(* may run, so each awaited request is an entry of an in-flight sequence   *)
(* and its resolution is an action of its own.                             *)
(* React drops a state update made for a component instance that has been  *)
(* unmounted: every closure carries the flag live, cleared on unmount.     *)
(***************************************************************************)
EXTENDS Integers, Sequences, FiniteSets, TLC

----------------------------------------------------------------------------
(* Values *)

None == "none"

Tokens == {"T1", "T2"}

UserOf(t) == IF t = "T1" THEN "u1" ELSE "u2"

AccountLists == {<<>>, <<"A1", "A2">>}

StrategyLists == {<<>>, <<"S1", "S2">>}

Histories == {<<"H1">>, <<"H2", "H1">>}

AccountIds == {"A1", "A2", "A3"}

StrategyIds == {"S1", "S2"}

(* Values of the Trading Symbol select *)
Symbols == {"EURUSD", "GBPUSD"}

(* Values of the two RSI threshold fields of the strategy form *)
Thresholds == {40, 60}

FormDatas == [lower : Thresholds, upper : Thresholds]

(* Responses of GET /users/me/strategies on the Strategies page *)
StrategyRecords == {<<>>, <<[id |-> "S1", lower |-> 40, upper |-> 60]>>}

Routes == {"/login", "/register", "/", "/accounts", "/strategies", "/history"}

Protected == {"/", "/accounts", "/strategies", "/history"}

(* The routes of the session layer, and its two pages behind the gate *)
SessionRoutes == {"/login", "/", "/history"}

PageRoutes == {"/", "/history"}

ErrSelect == "Please select an account and strategy first."

ErrLoad == "Failed to load data. Please try again later."

ErrTrade == "Failed to execute trade. Please try again."

ErrCharging == "Failed to activate charging mode. Please try again."

ErrHistory == "Failed to load trading history. Please try again later."

ErrLogin == "Login failed. Please try again."

ErrPasswords == "Passwords do not match"

ErrRegister == "Registration failed. Please try again."

ErrAccountsLoad == "Failed to load accounts. Please try again later."

ErrAccountAdd == "Failed to add account. Please try again later."

ErrAccountDelete == "Failed to delete account. Please try again later."

ErrStrategiesLoad == "Failed to load strategies. Please try again later."

ErrStrategySave == "Failed to save strategy. Please try again later."

(* Bounds on the number of closures suspended at an await at one time *)

MaxLookups == 2

MaxLogins == 1

MaxLoads == 2

MaxRuns == 2

MaxTimers == 1

MaxHistReqs == 1

MaxRegs == 1

MaxAcctReqs == 2

MaxStratReqs == 1

----------------------------------------------------------------------------
(* State *)

VARIABLES
    started,     \* the AuthProvider's first effect has run
    token,       \* AuthProvider token
    user,        \* AuthProvider user
    loading,     \* AuthProvider loading
    stored,      \* localStorage['token']
    lookups,     \* verifyToken closures awaiting GET /users/me: their tokens
    route,       \* the router's location
    loginForm,   \* Login component state: error, loading
    loginReqs,   \* Login.handleSubmit closures awaiting POST /login
    dash,        \* Dashboard component state
    loads,       \* Dashboard.fetchData closures at an await
    runs,        \* handleStartBot / handleChargingMode closures at an await
    timers,      \* pending setTimeout callbacks of handleStartBot
    hist,        \* TradingHistory component state
    histReqs,    \* TradingHistory.fetchHistory closures at the await
    event,       \* the callback that ran last, and the closure it ran in
    mode,        \* the handler botRunning was set by, "idle" while it is false
    reg,         \* Register component state: error, loading
    regReqs,     \* Register.handleSubmit closures awaiting POST /register
    accts,       \* Accounts component state
    acctReqs,    \* Accounts closures at an await: fetch, create, delete
    strat,       \* Strategies component state
    stratReqs    \* Strategies closures at an await: fetch, create, update

authVars == <<started, token, user, loading, stored, lookups>>

loginVars == <<loginForm, loginReqs>>

dashVars == <<dash, loads, runs, timers, mode>>

histVars == <<hist, histReqs>>

regVars == <<reg, regReqs>>

acctVars == <<accts, acctReqs>>

stratVars == <<strat, stratReqs>>

pageVars == <<reg, regReqs, accts, acctReqs, strat, stratReqs>>

vars == <<started, token, user, loading, stored, lookups, route,
          loginForm, loginReqs, dash, loads, runs, timers, hist, histReqs,
          event, mode, reg, regReqs, accts, acctReqs, strat, stratReqs>>

(* A callback of the user interface runs in the current render (live, with *)
(* the current token); a continuation after an await runs in its closure.  *)
(* The body and the credential of a POST /simulate/trading; NoRequest      *)
(* where none was issued.                                                  *)
NoRequest ==
    [account_id |-> None, strategy_id |-> None, asset |-> None,
     charging_mode |-> None, bearer |-> None]

Ev(op, live, tok, pc) ==
    [op |-> op, live |-> live, tok |-> tok, pc |-> pc, req |-> NoRequest]

UiEvent(op) == Ev(op, TRUE, token, "")

InitLoginForm == [error |-> "", loading |-> FALSE]

InitDash ==
    [accounts |-> <<>>, strategies |-> <<>>,
     selectedAccount |-> None, selectedStrategy |-> None,
     isLoading |-> TRUE, error |-> "",
     tradingHistory |-> <<>>, botRunning |-> FALSE,
     chartSymbol |-> "EURUSD"]

InitHist == [tradingHistory |-> <<>>, isLoading |-> TRUE, error |-> ""]

InitRegForm == [error |-> "", loading |-> FALSE]

InitAccts ==
    [accounts |-> <<>>, isLoading |-> TRUE, error |-> "",
     isAddingAccount |-> FALSE]

DefaultFormData == [lower |-> 40, upper |-> 60]

InitStrat ==
    [strategies |-> <<>>, isLoading |-> TRUE, error |-> "",
     isEditingStrategy |-> FALSE, editingStrategyId |-> None,
     formData |-> DefaultFormData]

----------------------------------------------------------------------------
(* Helpers on in-flight sequences *)

Remove(s, i) == SubSeq(s, 1, i - 1) \o SubSeq(s, i + 1, Len(s))

Range(s) == {s[i] : i \in 1..Len(s)}

Kill(s) == [i \in 1..Len(s) |-> [s[i] EXCEPT !.live = FALSE]]

----------------------------------------------------------------------------
(* ProtectedRoute *)

(* Mutant of GateOf: ProtectedRoute without its check of the token *)
GateOf_NoTokenCheck(l, t) == IF l THEN "pending" ELSE "granted"

GateOf(l, t) ==
    IF l THEN "pending" ELSE IF t = None THEN "denied" ELSE "granted"

Gate == GateOf(loading, token)

(* Navigate to="/login" is rendered when a protected route is denied *)
RouteAfter(r, l, t) ==
    IF r \in Protected /\ GateOf(l, t) = "denied" THEN "/login" ELSE r

Shows(page, r, l, t) == r = page /\ GateOf(l, t) = "granted"

DashMounted == Shows("/", route, loading, token)

HistMounted == Shows("/history", route, loading, token)

AcctsMounted == Shows("/accounts", route, loading, token)

StratMounted == Shows("/strategies", route, loading, token)

(* The controls of the Dashboard are rendered once isLoading is false *)
DashVisible == DashMounted /\ ~dash.isLoading

----------------------------------------------------------------------------
(* Rendering.  Render(t2, l2, r2, lf2, lr2) is the commit that follows a   *)
(* handler which left the AuthProvider with token t2 and loading l2, the   *)
(* router at r2, and the Login form and its requests at lf2 and lr2: it    *)
(* follows the Navigate of a denied ProtectedRoute, mounts and unmounts    *)
(* the pages and runs the [token] effects of the mounted pages.            *)

NewLoad(t) ==
    [live |-> TRUE, tok |-> t, pc |-> "accounts",
     accountsResponse |-> <<>>, strategiesResponse |-> <<>>]

NewHistReq(t) == [live |-> TRUE, tok |-> t]

RenderLogin(r3, lf2, lr2) ==
    IF r3 = "/login"
    THEN /\ loginForm' = (IF route = "/login" THEN lf2 ELSE InitLoginForm)
         /\ loginReqs' = lr2
    ELSE /\ loginForm' = InitLoginForm
         /\ loginReqs' = Kill(lr2)

RenderDashboard(r3, l2, t2) ==
    LET was == DashMounted
        now == Shows("/", r3, l2, t2)
    IN  IF now /\ ~was
        THEN /\ Len(loads) < MaxLoads
             /\ dash' = InitDash
             /\ loads' = Append(loads, NewLoad(t2))
             /\ UNCHANGED <<runs, timers, mode>>
        ELSE IF now /\ t2 # token
        THEN /\ Len(loads) < MaxLoads
             /\ dash' = [dash EXCEPT !.isLoading = TRUE]
             /\ loads' = Append(loads, NewLoad(t2))
             /\ UNCHANGED <<runs, timers, mode>>
        ELSE IF was /\ ~now
        THEN /\ dash' = InitDash
             /\ loads' = Kill(loads)
             /\ runs' = Kill(runs)
             /\ timers' = Kill(timers)
             /\ mode' = "idle"
        ELSE UNCHANGED dashVars

RenderHistory(r3, l2, t2) ==
    LET was == HistMounted
        now == Shows("/history", r3, l2, t2)
    IN  IF now /\ ~was
        THEN /\ Len(histReqs) < MaxHistReqs
             /\ hist' = InitHist
             /\ histReqs' = Append(histReqs, NewHistReq(t2))
        ELSE IF now /\ t2 # token
        THEN /\ Len(histReqs) < MaxHistReqs
             /\ hist' = [hist EXCEPT !.isLoading = TRUE]
             /\ histReqs' = Append(histReqs, NewHistReq(t2))
        ELSE IF was /\ ~now
        THEN /\ hist' = InitHist
             /\ histReqs' = Kill(histReqs)
        ELSE UNCHANGED histVars

RenderRegister(r3, rf2, rr2) ==
    IF r3 = "/register"
    THEN /\ reg' = (IF route = "/register" THEN rf2 ELSE InitRegForm)
         /\ regReqs' = rr2
    ELSE /\ reg' = InitRegForm
         /\ regReqs' = Kill(rr2)

NewAcctFetch(t) ==
    [live |-> TRUE, tok |-> t, op |-> "fetch", accounts |-> <<>>, id |-> None]

RenderAccounts(r3, l2, t2) ==
    LET was == AcctsMounted
        now == Shows("/accounts", r3, l2, t2)
    IN  IF now /\ ~was
        THEN /\ Len(acctReqs) < MaxAcctReqs
             /\ accts' = InitAccts
             /\ acctReqs' = Append(acctReqs, NewAcctFetch(t2))
        ELSE IF now /\ t2 # token
        THEN /\ Len(acctReqs) < MaxAcctReqs
             /\ accts' = [accts EXCEPT !.isLoading = TRUE]
             /\ acctReqs' = Append(acctReqs, NewAcctFetch(t2))
        ELSE IF was /\ ~now
        THEN /\ accts' = InitAccts
             /\ acctReqs' = Kill(acctReqs)
        ELSE UNCHANGED acctVars

NewStratFetch(t) ==
    [live |-> TRUE, tok |-> t, op |-> "fetch", strategies |-> <<>>,
     id |-> None, formData |-> DefaultFormData]

RenderStrategies(r3, l2, t2) ==
    LET was == StratMounted
        now == Shows("/strategies", r3, l2, t2)
    IN  IF now /\ ~was
        THEN /\ Len(stratReqs) < MaxStratReqs
             /\ strat' = InitStrat
             /\ stratReqs' = Append(stratReqs, NewStratFetch(t2))
        ELSE IF now /\ t2 # token
        THEN /\ Len(stratReqs) < MaxStratReqs
             /\ strat' = [strat EXCEPT !.isLoading = TRUE]
             /\ stratReqs' = Append(stratReqs, NewStratFetch(t2))
        ELSE IF was /\ ~now
        THEN /\ strat' = InitStrat
             /\ stratReqs' = Kill(stratReqs)
        ELSE UNCHANGED stratVars

(* The commit that also leaves the Register form and its requests at rf2   *)
(* and rr2                                                                 *)
RenderWith(t2, l2, r2, lf2, lr2, rf2, rr2) ==
    LET r3 == RouteAfter(r2, l2, t2)
    IN  /\ route' = r3
        /\ RenderLogin(r3, lf2, lr2)
        /\ RenderRegister(r3, rf2, rr2)
        /\ RenderDashboard(r3, l2, t2)
        /\ RenderAccounts(r3, l2, t2)
        /\ RenderStrategies(r3, l2, t2)
        /\ RenderHistory(r3, l2, t2)

Render(t2, l2, r2, lf2, lr2) == RenderWith(t2, l2, r2, lf2, lr2, reg, regReqs)

----------------------------------------------------------------------------
(* AuthProvider *)

Init ==
    /\ started = FALSE
    /\ stored \in Tokens \cup {None}
    /\ token = stored
    /\ user = None
    /\ loading = TRUE
    /\ lookups = <<>>
    /\ route \in Routes
    /\ loginForm = InitLoginForm
    /\ loginReqs = <<>>
    /\ dash = InitDash
    /\ loads = <<>>
    /\ runs = <<>>
    /\ timers = <<>>
    /\ hist = InitHist
    /\ histReqs = <<>>
    /\ event = Ev("init", TRUE, stored, "")
    /\ mode = "idle"
    /\ reg = InitRegForm
    /\ regReqs = <<>>
    /\ accts = InitAccts
    /\ acctReqs = <<>>
    /\ strat = InitStrat
    /\ stratReqs = <<>>

(* The effect [token] runs verifyToken: with a token it awaits the lookup, *)
(* without one it only clears loading.                                     *)
verifyToken(t) ==
    IF t # None
    THEN /\ Len(lookups) < MaxLookups
         /\ lookups' = Append(lookups, t)
         /\ loading' = loading
    ELSE /\ lookups' = lookups
         /\ loading' = FALSE

AppStart ==
    /\ ~started
    /\ started' = TRUE
    /\ verifyToken(token)
    /\ UNCHANGED <<token, user, stored>>
    /\ Render(token, loading', route, loginForm, loginReqs)
    /\ event' = UiEvent("AppStart")

(* verifyToken after the await, try branch *)
VerifyOk(i) ==
    /\ i \in 1..Len(lookups)
    /\ user' = UserOf(lookups[i])
    /\ loading' = FALSE
    /\ lookups' = Remove(lookups, i)
    /\ UNCHANGED <<started, token, stored>>
    /\ Render(token, FALSE, route, loginForm, loginReqs)
    /\ event' = Ev("VerifyOk", TRUE, lookups[i], "")

(* Mutant of VerifyFail: the catch branch forgets localStorage.removeItem *)
VerifyFail_KeepsStored(i) ==
    /\ i \in 1..Len(lookups)
    /\ token' = None
    /\ loading' = FALSE
    /\ lookups' = Remove(lookups, i)
    /\ UNCHANGED <<started, user, stored>>
    /\ Render(None, FALSE, route, loginForm, loginReqs)
    /\ event' = Ev("VerifyFail", TRUE, lookups[i], "")

(* verifyToken after the await, catch branch; the effect that follows the  *)
(* change of token to null finds no token and clears loading again         *)
VerifyFail(i) ==
    /\ i \in 1..Len(lookups)
    /\ token' = None
    /\ stored' = None
    /\ loading' = FALSE
    /\ lookups' = Remove(lookups, i)
    /\ UNCHANGED <<started, user>>
    /\ Render(None, FALSE, route, loginForm, loginReqs)
    /\ event' = Ev("VerifyFail", TRUE, lookups[i], "")

(* Mutant of logout: setToken(null) is forgotten, so the gate stays open *)
logout_KeepsToken ==
    /\ started
    /\ DashMounted \/ HistMounted \/ AcctsMounted \/ StratMounted
    /\ user' = None
    /\ stored' = None
    /\ UNCHANGED <<started, token, loading, lookups>>
    /\ Render(token, loading, route, loginForm, loginReqs)
    /\ event' = UiEvent("logout")

logout ==
    /\ started
    /\ DashMounted \/ HistMounted \/ AcctsMounted \/ StratMounted
    /\ token' = None
    /\ user' = None
    /\ stored' = None
    /\ loading' = FALSE
    /\ UNCHANGED <<started, lookups>>
    /\ Render(None, FALSE, route, loginForm, loginReqs)
    /\ event' = UiEvent("logout")

(* Sidebar buttons and the browser's history *)
Navigate(r) ==
    /\ started
    /\ r \in Routes
    /\ r # route
    /\ UNCHANGED authVars
    /\ Render(token, loading, r, loginForm, loginReqs)
    /\ event' = UiEvent("Navigate")

----------------------------------------------------------------------------
(* Login *)

LoginSubmit ==
    /\ started
    /\ route = "/login"
    /\ ~loginForm.loading
    /\ Len(loginReqs) < MaxLogins
    /\ loginForm' = [error |-> "", loading |-> TRUE]
    /\ loginReqs' = Append(loginReqs, [live |-> TRUE])
    /\ UNCHANGED <<authVars, route, dashVars, histVars, pageVars>>
    /\ event' = UiEvent("LoginSubmit")

(* Mutant of LoginOk: login forgets localStorage.setItem *)
LoginOk_NotPersisted(i, t) ==
    /\ i \in 1..Len(loginReqs)
    /\ t \in Tokens
    /\ token' = t
    /\ IF t # token THEN verifyToken(t) ELSE UNCHANGED <<lookups, loading>>
    /\ UNCHANGED <<started, user, stored>>
    /\ Render(t, loading, "/",
              IF loginReqs[i].live
              THEN [loginForm EXCEPT !.loading = FALSE] ELSE loginForm,
              Remove(loginReqs, i))
    /\ event' = Ev("LoginOk", loginReqs[i].live, t, "")

(* Mutant of LoginOk: verifyToken runs after every login, also when the   *)
(* token it sets is the one already held                                   *)
LoginOk_AlwaysVerifies(i, t) ==
    /\ i \in 1..Len(loginReqs)
    /\ t \in Tokens
    /\ token' = t
    /\ stored' = t
    /\ verifyToken(t)
    /\ UNCHANGED <<started, user>>
    /\ Render(t, loading, "/",
              IF loginReqs[i].live
              THEN [loginForm EXCEPT !.loading = FALSE] ELSE loginForm,
              Remove(loginReqs, i))
    /\ event' = Ev("LoginOk", loginReqs[i].live, t, "")

(* handleSubmit after the await: login(access_token), navigate('/'),       *)
(* finally setLoading(false).  login sets the token and persists it; a     *)
(* changed token re-runs the effect.                                       *)
LoginOk(i, t) ==
    /\ i \in 1..Len(loginReqs)
    /\ t \in Tokens
    /\ token' = t
    /\ stored' = t
    /\ IF t # token THEN verifyToken(t) ELSE UNCHANGED <<lookups, loading>>
    /\ UNCHANGED <<started, user>>
    /\ Render(t, loading, "/",
              IF loginReqs[i].live
              THEN [loginForm EXCEPT !.loading = FALSE] ELSE loginForm,
              Remove(loginReqs, i))
    /\ event' = Ev("LoginOk", loginReqs[i].live, t, "")

(* Mutant of LoginFail: the finally block is missing *)
LoginFail_NoFinally(i) ==
    /\ i \in 1..Len(loginReqs)
    /\ loginForm' = (IF loginReqs[i].live
                     THEN [loginForm EXCEPT !.error = ErrLogin]
                     ELSE loginForm)
    /\ loginReqs' = Remove(loginReqs, i)
    /\ UNCHANGED <<authVars, route, dashVars, histVars, pageVars>>
    /\ event' = Ev("LoginFail", loginReqs[i].live, token, "")

(* handleSubmit after the await, catch and finally *)
LoginFail(i) ==
    /\ i \in 1..Len(loginReqs)
    /\ loginForm' = (IF loginReqs[i].live
                     THEN [error |-> ErrLogin, loading |-> FALSE]
                     ELSE loginForm)
    /\ loginReqs' = Remove(loginReqs, i)
    /\ UNCHANGED <<authVars, route, dashVars, histVars, pageVars>>
    /\ event' = Ev("LoginFail", loginReqs[i].live, token, "")

----------------------------------------------------------------------------
(* Dashboard.fetchData: three awaits in one try block *)

(* accountsResponse received: setAccounts, then the strategies request *)
LoadAccountsOk(i, data) ==
    /\ i \in 1..Len(loads)
    /\ loads[i].pc = "accounts"
    /\ data \in AccountLists
    /\ dash' = (IF loads[i].live THEN [dash EXCEPT !.accounts = data] ELSE dash)
    /\ loads' = [loads EXCEPT ![i].pc = "strategies",
                              ![i].accountsResponse = data]
    /\ UNCHANGED <<authVars, route, loginVars, runs, timers, mode,
                   histVars, pageVars>>
    /\ event' = Ev("LoadAccountsOk", loads[i].live, loads[i].tok, loads[i].pc)

(* strategiesResponse received: setStrategies, then the history request *)
LoadStrategiesOk(i, data) ==
    /\ i \in 1..Len(loads)
    /\ loads[i].pc = "strategies"
    /\ data \in StrategyLists
    /\ dash' = (IF loads[i].live THEN [dash EXCEPT !.strategies = data] ELSE dash)
    /\ loads' = [loads EXCEPT ![i].pc = "history",
                              ![i].strategiesResponse = data]
    /\ UNCHANGED <<authVars, route, loginVars, runs, timers, mode,
                   histVars, pageVars>>
    /\ event' = Ev("LoadStrategiesOk", loads[i].live, loads[i].tok, loads[i].pc)

(* The default selections at the end of the try block *)
selectDefaults(d, accountsData, strategiesData) ==
    [d EXCEPT
       !.selectedAccount =
           IF Len(accountsData) > 0 THEN accountsData[1] ELSE @,
       !.selectedStrategy =
           IF Len(strategiesData) > 0 THEN strategiesData[1] ELSE @]

(* historyResponse received: setTradingHistory, the defaults, finally *)
LoadHistoryOk(i, data) ==
    /\ i \in 1..Len(loads)
    /\ loads[i].pc = "history"
    /\ data \in Histories
    /\ dash' = (IF loads[i].live
                THEN [selectDefaults([dash EXCEPT !.tradingHistory = data],
                                     loads[i].accountsResponse,
                                     loads[i].strategiesResponse)
                        EXCEPT !.isLoading = FALSE]
                ELSE dash)
    /\ loads' = Remove(loads, i)
    /\ UNCHANGED <<authVars, route, loginVars, runs, timers, mode,
                   histVars, pageVars>>
    /\ event' = Ev("LoadHistoryOk", loads[i].live, loads[i].tok, loads[i].pc)

(* Mutant of LoadFail: the finally block is missing *)
LoadFail_NoFinally(i) ==
    /\ i \in 1..Len(loads)
    /\ dash' = (IF loads[i].live
                THEN [dash EXCEPT !.error = ErrLoad] ELSE dash)
    /\ loads' = Remove(loads, i)
    /\ UNCHANGED <<authVars, route, loginVars, runs, timers, mode,
                   histVars, pageVars>>
    /\ event' = Ev("LoadFail", loads[i].live, loads[i].tok, loads[i].pc)

(* Any of the three awaits rejects: catch, finally *)
LoadFail(i) ==
    /\ i \in 1..Len(loads)
    /\ dash' = (IF loads[i].live
                THEN [dash EXCEPT !.error = ErrLoad, !.isLoading = FALSE]
                ELSE dash)
    /\ loads' = Remove(loads, i)
    /\ UNCHANGED <<authVars, route, loginVars, runs, timers, mode,
                   histVars, pageVars>>
    /\ event' = Ev("LoadFail", loads[i].live, loads[i].tok, loads[i].pc)

----------------------------------------------------------------------------
(* Dashboard controls *)

SelectAccount(a) ==
    /\ DashVisible
    /\ a \in Range(dash.accounts) \cup {None}
    /\ a # dash.selectedAccount
    /\ dash' = [dash EXCEPT !.selectedAccount = a]
    /\ UNCHANGED <<authVars, route, loginVars, loads, runs, timers, mode,
                   histVars, pageVars>>
    /\ event' = UiEvent("SelectAccount")

SelectStrategy(s) ==
    /\ DashVisible
    /\ s \in Range(dash.strategies) \cup {None}
    /\ s # dash.selectedStrategy
    /\ dash' = [dash EXCEPT !.selectedStrategy = s]
    /\ UNCHANGED <<authVars, route, loginVars, loads, runs, timers, mode,
                   histVars, pageVars>>
    /\ event' = UiEvent("SelectStrategy")

DismissError ==
    /\ DashVisible
    /\ dash.error # ""
    /\ dash' = [dash EXCEPT !.error = ""]
    /\ UNCHANGED <<authVars, route, loginVars, loads, runs, timers, mode,
                   histVars, pageVars>>
    /\ event' = UiEvent("DismissError")

(* onChange of the Trading Symbol select *)
SelectSymbol(sym) ==
    /\ DashVisible
    /\ sym \in Symbols
    /\ sym # dash.chartSymbol
    /\ dash' = [dash EXCEPT !.chartSymbol = sym]
    /\ UNCHANGED <<authVars, route, loginVars, loads, runs, timers, mode,
                   histVars, pageVars>>
    /\ event' = UiEvent("SelectSymbol")

NewRun(kind) ==
    [live |-> TRUE, tok |-> token, kind |-> kind, pc |-> "trigger"]

(* Mutant of StartHandler: the check of the selection is missing *)
StartHandler_NoCheck(kind) ==
    /\ DashVisible
    /\ ~dash.botRunning
    /\ Len(runs) < MaxRuns
    /\ dash' = [dash EXCEPT !.botRunning = TRUE]
    /\ runs' = Append(runs, NewRun(kind))
    /\ mode' = kind
    /\ UNCHANGED <<authVars, route, loginVars, loads, timers,
                   histVars, pageVars>>

(* handleStartBot and handleChargingMode up to the first await.  Both      *)
(* buttons are rendered only while botRunning is false.  The disabled      *)
(* attribute of the charging button repeats the handler's own check and is *)
(* not modelled: the handler decides.                                      *)
StartHandler(kind) ==
    /\ DashVisible
    /\ ~dash.botRunning
    /\ IF dash.selectedAccount = None \/ dash.selectedStrategy = None
       THEN /\ dash' = [dash EXCEPT !.error = ErrSelect]
            /\ UNCHANGED <<runs, mode>>
       ELSE /\ Len(runs) < MaxRuns
            /\ dash' = [dash EXCEPT !.botRunning = TRUE]
            /\ runs' = Append(runs, NewRun(kind))
            /\ mode' = kind
    /\ UNCHANGED <<authVars, route, loginVars, loads, timers,
                   histVars, pageVars>>

(* The arguments of axios.post in the handler of the given kind, when the  *)
(* selection lets it get there                                             *)
TriggerRequest(kind) ==
    IF dash.selectedAccount = None \/ dash.selectedStrategy = None
    THEN NoRequest
    ELSE [account_id |-> dash.selectedAccount,
          strategy_id |-> dash.selectedStrategy,
          asset |-> dash.chartSymbol,
          charging_mode |-> IF kind = "charging" THEN "true" ELSE None,
          bearer |-> token]

handleStartBot ==
    /\ StartHandler("start")
    /\ event' = [UiEvent("handleStartBot") EXCEPT
                    !.req = TriggerRequest("start")]

(* Mutant of handleChargingMode: the body has no charging_mode field *)
handleChargingMode_NoFlag ==
    /\ StartHandler("charging")
    /\ event' = [UiEvent("handleChargingMode") EXCEPT
                    !.req = TriggerRequest("start")]

handleChargingMode ==
    /\ StartHandler("charging")
    /\ event' = [UiEvent("handleChargingMode") EXCEPT
                    !.req = TriggerRequest("charging")]

(* Mutant of handleStopBot: it also clears the error *)
handleStopBot_ClearsError ==
    /\ DashVisible
    /\ dash.botRunning
    /\ dash' = [dash EXCEPT !.botRunning = FALSE, !.error = ""]
    /\ mode' = "idle"
    /\ UNCHANGED <<authVars, route, loginVars, loads, runs, timers,
                   histVars, pageVars>>
    /\ event' = UiEvent("handleStopBot")

handleStopBot ==
    /\ DashVisible
    /\ dash.botRunning
    /\ dash' = [dash EXCEPT !.botRunning = FALSE]
    /\ mode' = "idle"
    /\ UNCHANGED <<authVars, route, loginVars, loads, runs, timers,
                   histVars, pageVars>>
    /\ event' = UiEvent("handleStopBot")

(* finally of handleStartBot: setTimeout(() => setBotRunning(false), 5000); *)
(* handleChargingMode has no finally                                        *)
Finally(r) ==
    IF r.kind = "start"
    THEN /\ Len(timers) < MaxTimers
         /\ timers' = Append(timers, [live |-> r.live])
    ELSE timers' = timers

RunError(r) == IF r.kind = "start" THEN ErrTrade ELSE ErrCharging

(* POST /simulate/trading resolved: the history request is issued *)
TriggerOk(i) ==
    /\ i \in 1..Len(runs)
    /\ runs[i].pc = "trigger"
    /\ runs' = [runs EXCEPT ![i].pc = "history"]
    /\ UNCHANGED <<authVars, route, loginVars, dash, loads, timers, mode,
                   histVars, pageVars>>
    /\ event' = Ev("TriggerOk", runs[i].live, runs[i].tok, runs[i].pc)

(* Mutant of RunHistoryOk: the response is put in front of the cached      *)
(* records instead of replacing them                                       *)
RunHistoryOk_Merges(i, data) ==
    /\ i \in 1..Len(runs)
    /\ runs[i].pc = "history"
    /\ data \in Histories
    /\ dash' = (IF runs[i].live
                THEN [dash EXCEPT !.tradingHistory = data \o @] ELSE dash)
    /\ runs' = Remove(runs, i)
    /\ Finally(runs[i])
    /\ UNCHANGED <<authVars, route, loginVars, loads, mode,
                   histVars, pageVars>>
    /\ event' = Ev("RunHistoryOk", runs[i].live, runs[i].tok, runs[i].pc)

(* GET /trading/history of the run resolved: setTradingHistory, finally *)
RunHistoryOk(i, data) ==
    /\ i \in 1..Len(runs)
    /\ runs[i].pc = "history"
    /\ data \in Histories
    /\ dash' = (IF runs[i].live
                THEN [dash EXCEPT !.tradingHistory = data] ELSE dash)
    /\ runs' = Remove(runs, i)
    /\ Finally(runs[i])
    /\ UNCHANGED <<authVars, route, loginVars, loads, mode,
                   histVars, pageVars>>
    /\ event' = Ev("RunHistoryOk", runs[i].live, runs[i].tok, runs[i].pc)

(* Mutant of RunFail: the catch block is missing, so the rejection leaves  *)
(* the handler without setError                                            *)
RunFail_NoCatch(i) ==
    /\ i \in 1..Len(runs)
    /\ dash' = dash
    /\ runs' = Remove(runs, i)
    /\ Finally(runs[i])
    /\ UNCHANGED <<authVars, route, loginVars, loads, mode,
                   histVars, pageVars>>
    /\ event' = Ev("RunFail", runs[i].live, runs[i].tok, runs[i].pc)

(* Either await of the run rejects: catch, finally *)
RunFail(i) ==
    /\ i \in 1..Len(runs)
    /\ dash' = (IF runs[i].live
                THEN [dash EXCEPT !.error = RunError(runs[i])] ELSE dash)
    /\ runs' = Remove(runs, i)
    /\ Finally(runs[i])
    /\ UNCHANGED <<authVars, route, loginVars, loads, mode,
                   histVars, pageVars>>
    /\ event' = Ev("RunFail", runs[i].live, runs[i].tok, runs[i].pc)

(* The timeout callback: setBotRunning(false) *)
TimerFires(i) ==
    /\ i \in 1..Len(timers)
    /\ dash' = (IF timers[i].live
                THEN [dash EXCEPT !.botRunning = FALSE] ELSE dash)
    /\ mode' = (IF timers[i].live THEN "idle" ELSE mode)
    /\ timers' = Remove(timers, i)
    /\ UNCHANGED <<authVars, route, loginVars, loads, runs,
                   histVars, pageVars>>
    /\ event' = Ev("TimerFires", timers[i].live, token, "")

----------------------------------------------------------------------------
(* TradingHistory.fetchHistory *)

FetchHistoryOk(i, data) ==
    /\ i \in 1..Len(histReqs)
    /\ data \in Histories
    /\ hist' = (IF histReqs[i].live
                THEN [hist EXCEPT !.tradingHistory = data, !.isLoading = FALSE]
                ELSE hist)
    /\ histReqs' = Remove(histReqs, i)
    /\ UNCHANGED <<authVars, route, loginVars, dashVars, pageVars>>
    /\ event' = Ev("FetchHistoryOk", histReqs[i].live, histReqs[i].tok, "")

FetchHistoryFail(i) ==
    /\ i \in 1..Len(histReqs)
    /\ hist' = (IF histReqs[i].live
                THEN [hist EXCEPT !.error = ErrHistory, !.isLoading = FALSE]
                ELSE hist)
    /\ histReqs' = Remove(histReqs, i)
    /\ UNCHANGED <<authVars, route, loginVars, dashVars, pageVars>>
    /\ event' = Ev("FetchHistoryFail", histReqs[i].live, histReqs[i].tok, "")

----------------------------------------------------------------------------
(* Register *)

(* Mutant of RegisterSubmit: the comparison of the two passwords is missing *)
RegisterSubmit_NoCheck(match) ==
    /\ started
    /\ route = "/register"
    /\ ~reg.loading
    /\ match \in BOOLEAN
    /\ Len(regReqs) < MaxRegs
    /\ reg' = [error |-> "", loading |-> TRUE]
    /\ regReqs' = Append(regReqs, [live |-> TRUE])
    /\ UNCHANGED <<authVars, route, loginVars, dashVars, histVars,
                   acctVars, stratVars>>
    /\ event' = Ev("RegisterSubmit", TRUE, token,
                   IF match THEN "match" ELSE "mismatch")

(* handleSubmit up to the await; match says whether password and           *)
(* confirmPassword of the form are the same string.  The button is         *)
(* disabled while loading.                                                 *)
RegisterSubmit(match) ==
    /\ started
    /\ route = "/register"
    /\ ~reg.loading
    /\ match \in BOOLEAN
    /\ IF match
       THEN /\ Len(regReqs) < MaxRegs
            /\ reg' = [error |-> "", loading |-> TRUE]
            /\ regReqs' = Append(regReqs, [live |-> TRUE])
       ELSE /\ reg' = [error |-> ErrPasswords, loading |-> FALSE]
            /\ regReqs' = regReqs
    /\ UNCHANGED <<authVars, route, loginVars, dashVars, histVars,
                   acctVars, stratVars>>
    /\ event' = Ev("RegisterSubmit", TRUE, token,
                   IF match THEN "match" ELSE "mismatch")

(* handleSubmit after the await: navigate('/login'), finally *)
RegisterOk(i) ==
    /\ i \in 1..Len(regReqs)
    /\ UNCHANGED authVars
    /\ RenderWith(token, loading, "/login", loginForm, loginReqs,
                  IF regReqs[i].live
                  THEN [reg EXCEPT !.loading = FALSE] ELSE reg,
                  Remove(regReqs, i))
    /\ event' = Ev("RegisterOk", regReqs[i].live, token, "")

(* handleSubmit after the await: catch, finally *)
RegisterFail(i) ==
    /\ i \in 1..Len(regReqs)
    /\ reg' = (IF regReqs[i].live
               THEN [error |-> ErrRegister, loading |-> FALSE]
               ELSE reg)
    /\ regReqs' = Remove(regReqs, i)
    /\ UNCHANGED <<authVars, route, loginVars, dashVars, histVars,
                   acctVars, stratVars>>
    /\ event' = Ev("RegisterFail", regReqs[i].live, token, "")

----------------------------------------------------------------------------
(* Accounts.  A handler closes over the accounts of the render in which it *)
(* was called: its closure carries that list to the continuation.          *)

AcctsVisible == AcctsMounted /\ ~accts.isLoading

Without(s, id) == SelectSeq(s, LAMBDA x : x # id)

FetchAccountsOk(i, data) ==
    /\ i \in 1..Len(acctReqs)
    /\ acctReqs[i].op = "fetch"
    /\ data \in AccountLists
    /\ accts' = (IF acctReqs[i].live
                 THEN [accts EXCEPT !.accounts = data, !.isLoading = FALSE]
                 ELSE accts)
    /\ acctReqs' = Remove(acctReqs, i)
    /\ UNCHANGED <<authVars, route, loginVars, dashVars, histVars,
                   regVars, stratVars>>
    /\ event' = Ev("FetchAccountsOk", acctReqs[i].live, acctReqs[i].tok,
                   "fetch")

ToggleAddAccount ==
    /\ AcctsVisible
    /\ accts' = [accts EXCEPT !.isAddingAccount = ~@]
    /\ UNCHANGED <<authVars, route, loginVars, dashVars, histVars,
                   regVars, stratVars, acctReqs>>
    /\ event' = UiEvent("ToggleAddAccount")

DismissAccountsError ==
    /\ AcctsVisible
    /\ accts.error # ""
    /\ accts' = [accts EXCEPT !.error = ""]
    /\ UNCHANGED <<authVars, route, loginVars, dashVars, histVars,
                   regVars, stratVars, acctReqs>>
    /\ event' = UiEvent("DismissAccountsError")

(* handleSubmit of the add form up to the await *)
AccountSubmit ==
    /\ AcctsVisible
    /\ accts.isAddingAccount
    /\ Len(acctReqs) < MaxAcctReqs
    /\ acctReqs' = Append(acctReqs,
                          [live |-> TRUE, tok |-> token, op |-> "create",
                           accounts |-> accts.accounts, id |-> None])
    /\ UNCHANGED <<authVars, route, loginVars, dashVars, histVars,
                   regVars, stratVars, accts>>
    /\ event' = UiEvent("AccountSubmit")

(* handleDeleteAccount up to the await, the confirmation accepted *)
AccountDelete(id) ==
    /\ AcctsVisible
    /\ id \in Range(accts.accounts)
    /\ Len(acctReqs) < MaxAcctReqs
    /\ acctReqs' = Append(acctReqs,
                          [live |-> TRUE, tok |-> token, op |-> "delete",
                           accounts |-> accts.accounts, id |-> id])
    /\ UNCHANGED <<authVars, route, loginVars, dashVars, histVars,
                   regVars, stratVars, accts>>
    /\ event' = UiEvent("AccountDelete")

(* The account ids the client holds anywhere: in the list of the page, in  *)
(* the list a closure has captured, or as the argument of a pending delete *)
AccountIdsHeld ==
    Range(accts.accounts)
        \cup UNION {Range(acctReqs[k].accounts) : k \in 1..Len(acctReqs)}
        \cup {acctReqs[k].id : k \in 1..Len(acctReqs)}

(* Mutant of AccountCreateOk: the new record is put in front of the list *)
AccountCreateOk_Prepends(i, id) ==
    /\ i \in 1..Len(acctReqs)
    /\ acctReqs[i].op = "create"
    /\ id \in AccountIds
    /\ id \notin AccountIdsHeld
    /\ accts' = (IF acctReqs[i].live
                 THEN [accts EXCEPT
                         !.accounts = <<id>> \o acctReqs[i].accounts,
                         !.isAddingAccount = FALSE]
                 ELSE accts)
    /\ acctReqs' = Remove(acctReqs, i)
    /\ UNCHANGED <<authVars, route, loginVars, dashVars, histVars,
                   regVars, stratVars>>
    /\ event' = Ev("AccountCreateOk", acctReqs[i].live, acctReqs[i].tok, id)

(* POST answered with the new record.  The server gives every account an   *)
(* id of its own; an id that the client holds nowhere stands for such a    *)
(* new id.  setAccounts([...accounts, response.data])                      *)
AccountCreateOk(i, id) ==
    /\ i \in 1..Len(acctReqs)
    /\ acctReqs[i].op = "create"
    /\ id \in AccountIds
    /\ id \notin AccountIdsHeld
    /\ accts' = (IF acctReqs[i].live
                 THEN [accts EXCEPT
                         !.accounts = Append(acctReqs[i].accounts, id),
                         !.isAddingAccount = FALSE]
                 ELSE accts)
    /\ acctReqs' = Remove(acctReqs, i)
    /\ UNCHANGED <<authVars, route, loginVars, dashVars, histVars,
                   regVars, stratVars>>
    /\ event' = Ev("AccountCreateOk", acctReqs[i].live, acctReqs[i].tok, id)

(* DELETE answered: setAccounts(accounts.filter(a => a.id !== accountId)) *)
AccountDeleteOk(i) ==
    /\ i \in 1..Len(acctReqs)
    /\ acctReqs[i].op = "delete"
    /\ accts' = (IF acctReqs[i].live
                 THEN [accts EXCEPT
                         !.accounts = Without(acctReqs[i].accounts,
                                              acctReqs[i].id)]
                 ELSE accts)
    /\ acctReqs' = Remove(acctReqs, i)
    /\ UNCHANGED <<authVars, route, loginVars, dashVars, histVars,
                   regVars, stratVars>>
    /\ event' = Ev("AccountDeleteOk", acctReqs[i].live, acctReqs[i].tok,
                   acctReqs[i].id)

AccountError(r) ==
    IF r.op = "fetch" THEN ErrAccountsLoad
    ELSE IF r.op = "create" THEN ErrAccountAdd
    ELSE ErrAccountDelete

(* The request of a closure rejects: catch (and, for the fetch, finally) *)
AccountFail(i) ==
    /\ i \in 1..Len(acctReqs)
    /\ accts' = (IF acctReqs[i].live
                 THEN [accts EXCEPT
                         !.error = AccountError(acctReqs[i]),
                         !.isLoading =
                             IF acctReqs[i].op = "fetch" THEN FALSE ELSE @]
                 ELSE accts)
    /\ acctReqs' = Remove(acctReqs, i)
    /\ UNCHANGED <<authVars, route, loginVars, dashVars, histVars,
                   regVars, stratVars>>
    /\ event' = Ev("AccountFail", acctReqs[i].live, acctReqs[i].tok,
                   acctReqs[i].op)

----------------------------------------------------------------------------
(* Strategies.  A strategy is its id and its two RSI thresholds; the other *)
(* fields of the form travel with them and are left out.                   *)

StratVisible == StratMounted /\ ~strat.isLoading

StrategyIdsOf(s) == {s[k].id : k \in 1..Len(s)}

(* strategies.map(s => s.id === id ? rec : s) *)
Replace(s, id, rec) ==
    [k \in 1..Len(s) |-> IF s[k].id = id THEN rec ELSE s[k]]

FetchStrategiesOk(i, data) ==
    /\ i \in 1..Len(stratReqs)
    /\ stratReqs[i].op = "fetch"
    /\ data \in StrategyRecords
    /\ strat' = (IF stratReqs[i].live
                 THEN [strat EXCEPT !.strategies = data, !.isLoading = FALSE]
                 ELSE strat)
    /\ stratReqs' = Remove(stratReqs, i)
    /\ UNCHANGED <<authVars, route, loginVars, dashVars, histVars,
                   regVars, acctVars>>
    /\ event' = Ev("FetchStrategiesOk", stratReqs[i].live, stratReqs[i].tok,
                   "fetch")

(* The Add Strategy / Cancel button *)
ToggleStrategyForm ==
    /\ StratVisible
    /\ strat' = [strat EXCEPT !.isEditingStrategy = ~@,
                              !.editingStrategyId = None,
                              !.formData = DefaultFormData]
    /\ UNCHANGED <<authVars, route, loginVars, dashVars, histVars,
                   regVars, acctVars, stratReqs>>
    /\ event' = UiEvent("ToggleStrategyForm")

DismissStrategiesError ==
    /\ StratVisible
    /\ strat.error # ""
    /\ strat' = [strat EXCEPT !.error = ""]
    /\ UNCHANGED <<authVars, route, loginVars, dashVars, histVars,
                   regVars, acctVars, stratReqs>>
    /\ event' = UiEvent("DismissStrategiesError")

handleEditStrategy(k) ==
    /\ StratVisible
    /\ k \in 1..Len(strat.strategies)
    /\ strat' = [strat EXCEPT
                    !.formData = [lower |-> strat.strategies[k].lower,
                                  upper |-> strat.strategies[k].upper],
                    !.editingStrategyId = strat.strategies[k].id,
                    !.isEditingStrategy = TRUE]
    /\ UNCHANGED <<authVars, route, loginVars, dashVars, histVars,
                   regVars, acctVars, stratReqs>>
    /\ event' = UiEvent("handleEditStrategy")

(* handleChange of one of the two threshold inputs of the open form *)
handleChange(field, value) ==
    /\ StratVisible
    /\ strat.isEditingStrategy
    /\ field \in {"lower", "upper"}
    /\ value \in Thresholds
    /\ strat.formData[field] # value
    /\ strat' = [strat EXCEPT !.formData[field] = value]
    /\ UNCHANGED <<authVars, route, loginVars, dashVars, histVars,
                   regVars, acctVars, stratReqs>>
    /\ event' = UiEvent("handleChange")

(* handleSubmit of the strategy form up to the await *)
StrategySubmit ==
    /\ StratVisible
    /\ strat.isEditingStrategy
    /\ Len(stratReqs) < MaxStratReqs
    /\ stratReqs' = Append(stratReqs,
                           [live |-> TRUE, tok |-> token,
                            op |-> IF strat.editingStrategyId # None
                                   THEN "update" ELSE "create",
                            strategies |-> strat.strategies,
                            id |-> strat.editingStrategyId,
                            formData |-> strat.formData])
    /\ UNCHANGED <<authVars, route, loginVars, dashVars, histVars,
                   regVars, acctVars, strat>>
    /\ event' = UiEvent("StrategySubmit")

(* The strategy ids the client holds anywhere *)
StrategyIdsHeld ==
    StrategyIdsOf(strat.strategies)
        \cup UNION {StrategyIdsOf(stratReqs[k].strategies) :
                       k \in 1..Len(stratReqs)}
        \cup {stratReqs[k].id : k \in 1..Len(stratReqs)}

(* What the server answers to a save: the thresholds it was sent, under   *)
(* the id of the update or, for a create, under a new id: one that the     *)
(* client holds nowhere.                                                   *)
SavedRecords(r) ==
    {rec \in [id : StrategyIds, lower : Thresholds, upper : Thresholds] :
        /\ rec.lower = r.formData.lower
        /\ rec.upper = r.formData.upper
        /\ IF r.op = "update"
           THEN rec.id = r.id
           ELSE rec.id \notin StrategyIdsHeld}

(* handleSubmit after the await, the request answered *)
StrategySaveOk(i, rec) ==
    /\ i \in 1..Len(stratReqs)
    /\ stratReqs[i].op \in {"create", "update"}
    /\ rec \in SavedRecords(stratReqs[i])
    /\ strat' = (IF stratReqs[i].live
                 THEN [strat EXCEPT
                         !.strategies =
                             IF stratReqs[i].op = "update"
                             THEN Replace(stratReqs[i].strategies,
                                          stratReqs[i].id, rec)
                             ELSE Append(stratReqs[i].strategies, rec),
                         !.isEditingStrategy = FALSE,
                         !.editingStrategyId = None,
                         !.formData = DefaultFormData]
                 ELSE strat)
    /\ stratReqs' = Remove(stratReqs, i)
    /\ UNCHANGED <<authVars, route, loginVars, dashVars, histVars,
                   regVars, acctVars>>
    /\ event' = Ev("StrategySaveOk", stratReqs[i].live, stratReqs[i].tok,
                   rec.id)

StrategyError(r) ==
    IF r.op = "fetch" THEN ErrStrategiesLoad ELSE ErrStrategySave

(* The request of a closure rejects: catch (and, for the fetch, finally) *)
StrategyFail(i) ==
    /\ i \in 1..Len(stratReqs)
    /\ strat' = (IF stratReqs[i].live
                 THEN [strat EXCEPT
                         !.error = StrategyError(stratReqs[i]),
                         !.isLoading =
                             IF stratReqs[i].op = "fetch" THEN FALSE ELSE @]
                 ELSE strat)
    /\ stratReqs' = Remove(stratReqs, i)
    /\ UNCHANGED <<authVars, route, loginVars, dashVars, histVars,
                   regVars, acctVars>>
    /\ event' = Ev("StrategyFail", stratReqs[i].live, stratReqs[i].tok,
                   stratReqs[i].op)

----------------------------------------------------------------------------
(* Specifications.  The client is explored in several environments, each   *)
(* a set of behaviours of the whole client.                                *)

AuthStep ==
    \/ AppStart
    \/ \E i \in 1..MaxLookups : VerifyOk(i)
    \/ \E i \in 1..MaxLookups : VerifyFail(i)
    \/ logout

LoginStep ==
    \/ LoginSubmit
    \/ \E i \in 1..MaxLogins, t \in Tokens : LoginOk(i, t)
    \/ \E i \in 1..MaxLogins : LoginFail(i)

LoadStep ==
    \/ \E i \in 1..MaxLoads, data \in AccountLists : LoadAccountsOk(i, data)
    \/ \E i \in 1..MaxLoads, data \in StrategyLists : LoadStrategiesOk(i, data)
    \/ \E i \in 1..MaxLoads, data \in Histories : LoadHistoryOk(i, data)
    \/ \E i \in 1..MaxLoads : LoadFail(i)

SelectionStep ==
    \/ \E a \in {"A1", "A2", None} : SelectAccount(a)
    \/ \E s \in {"S1", "S2", None} : SelectStrategy(s)
    \/ DismissError

BotStep ==
    \/ handleStartBot
    \/ handleChargingMode
    \/ handleStopBot
    \/ \E i \in 1..MaxRuns : TriggerOk(i)
    \/ \E i \in 1..MaxRuns, data \in Histories : RunHistoryOk(i, data)
    \/ \E i \in 1..MaxRuns : RunFail(i)
    \/ \E i \in 1..MaxTimers : TimerFires(i)

HistoryPageStep ==
    \/ \E i \in 1..MaxHistReqs, data \in Histories : FetchHistoryOk(i, data)
    \/ \E i \in 1..MaxHistReqs : FetchHistoryFail(i)

RegisterStep ==
    \/ \E match \in BOOLEAN : RegisterSubmit(match)
    \/ \E i \in 1..MaxRegs : RegisterOk(i)
    \/ \E i \in 1..MaxRegs : RegisterFail(i)

AccountsStep ==
    \/ \E i \in 1..MaxAcctReqs, data \in AccountLists : FetchAccountsOk(i, data)
    \/ ToggleAddAccount
    \/ DismissAccountsError
    \/ AccountSubmit
    \/ \E id \in AccountIds : AccountDelete(id)
    \/ \E i \in 1..MaxAcctReqs, id \in AccountIds : AccountCreateOk(i, id)
    \/ \E i \in 1..MaxAcctReqs : AccountDeleteOk(i)
    \/ \E i \in 1..MaxAcctReqs : AccountFail(i)

StrategiesStep ==
    \/ \E i \in 1..MaxStratReqs, data \in StrategyRecords :
           FetchStrategiesOk(i, data)
    \/ ToggleStrategyForm
    \/ DismissStrategiesError
    \/ \E k \in 1..Cardinality(StrategyIds) : handleEditStrategy(k)
    \/ \E field \in {"lower", "upper"}, value \in Thresholds :
           handleChange(field, value)
    \/ StrategySubmit
    \/ \E i \in 1..MaxStratReqs,
          rec \in [id : StrategyIds, lower : Thresholds, upper : Thresholds] :
           StrategySaveOk(i, rec)
    \/ \E i \in 1..MaxStratReqs : StrategyFail(i)

(* The whole client *)
Next ==
    \/ AuthStep
    \/ \E r \in Routes : Navigate(r)
    \/ LoginStep
    \/ RegisterStep
    \/ LoadStep
    \/ SelectionStep
    \/ \E sym \in Symbols : SelectSymbol(sym)
    \/ BotStep
    \/ HistoryPageStep
    \/ AccountsStep
    \/ StrategiesStep

Spec == Init /\ [][Next]_vars

(* The session layer: AuthProvider, ProtectedRoute, the router, Login and  *)
(* the TradingHistory page.  The Dashboard is mounted and issues its load, *)
(* whose requests stay unanswered here.                                    *)
NextSession ==
    \/ AuthStep
    \/ \E r \in SessionRoutes : Navigate(r)
    \/ LoginStep
    \/ HistoryPageStep

InitSession == Init /\ route \in SessionRoutes

SpecSession == InitSession /\ [][NextSession]_vars

(* The two protected pages and their loads under the persisted token:      *)
(* sidebar navigation, logout, no login and no bot control.                *)
InitPages == Init /\ route \in PageRoutes

NextPages ==
    \/ AuthStep
    \/ \E r \in PageRoutes : Navigate(r)
    \/ LoadStep
    \/ HistoryPageStep

SpecPages == InitPages /\ [][NextPages]_vars

(* The Dashboard opened with the persisted token: loads, selection and bot *)
(* control, until logout or a failed verification.                         *)
InitDashboard == Init /\ route = "/"

NextDashboard ==
    \/ AuthStep
    \/ LoadStep
    \/ SelectionStep
    \/ BotStep

SpecDashboard == InitDashboard /\ [][NextDashboard]_vars

(* Login and the Dashboard's loads and selection: the token can change     *)
(* while the Dashboard is mounted; the bot is not started.                 *)
InitReload == Init /\ route \in {"/login", "/"}

NextReload ==
    \/ AuthStep
    \/ \E r \in {"/login", "/"} : Navigate(r)
    \/ LoginStep
    \/ LoadStep
    \/ SelectionStep

SpecReload == InitReload /\ [][NextReload]_vars

(* The gate in front of the four protected pages under the persisted      *)
(* token: the AuthProvider and the router over all six routes; nobody logs *)
(* in and the requests of the pages stay unanswered.                       *)
NextGate ==
    \/ AuthStep
    \/ \E r \in Routes : Navigate(r)

SpecGate == Init /\ [][NextGate]_vars

(* The two forms that refuse a submission in the client: Register, and    *)
(* the bot controls of the Dashboard, whose run requests stay unanswered.  *)
InitForms == Init /\ route \in {"/register", "/"}

NextForms ==
    \/ AuthStep
    \/ RegisterStep
    \/ LoadStep
    \/ SelectionStep
    \/ handleStartBot
    \/ handleChargingMode
    \/ handleStopBot

SpecForms == InitForms /\ [][NextForms]_vars

(* The Accounts page: fetch, add and delete under the persisted token *)
InitAccounts == Init /\ route = "/accounts"

NextAccounts ==
    \/ AuthStep
    \/ AccountsStep

SpecAccounts == InitAccounts /\ [][NextAccounts]_vars

(* The Accounts page or the Strategies page while the session stays valid  *)
(* and every request succeeds; of the strategy form the user changes the   *)
(* lower threshold only                                                    *)
InitCollections == Init /\ route \in {"/accounts", "/strategies"}

NextCollections ==
    \/ AppStart
    \/ \E i \in 1..MaxLookups : VerifyOk(i)
    \/ \E i \in 1..MaxAcctReqs, data \in AccountLists : FetchAccountsOk(i, data)
    \/ ToggleAddAccount
    \/ AccountSubmit
    \/ \E id \in AccountIds : AccountDelete(id)
    \/ \E i \in 1..MaxAcctReqs, id \in AccountIds : AccountCreateOk(i, id)
    \/ \E i \in 1..MaxAcctReqs : AccountDeleteOk(i)
    \/ \E i \in 1..MaxStratReqs, data \in StrategyRecords :
           FetchStrategiesOk(i, data)
    \/ ToggleStrategyForm
    \/ \E k \in 1..Cardinality(StrategyIds) : handleEditStrategy(k)
    \/ \E value \in Thresholds : handleChange("lower", value)
    \/ StrategySubmit
    \/ \E i \in 1..MaxStratReqs,
          rec \in [id : StrategyIds, lower : Thresholds, upper : Thresholds] :
           StrategySaveOk(i, rec)

SpecCollections == InitCollections /\ [][NextCollections]_vars

(* The Strategies page: fetch, create and update under the persisted token *)
InitStrategies == Init /\ route = "/strategies"

NextStrategies ==
    \/ AuthStep
    \/ StrategiesStep

SpecStrategies == InitStrategies /\ [][NextStrategies]_vars

(* The Dashboard opened with the persisted token: loads, the selection of  *)
(* account, strategy and symbol, and the three bot buttons; the requests   *)
(* of the runs stay unanswered.                                            *)
NextTrigger ==
    \/ AuthStep
    \/ LoadStep
    \/ SelectionStep
    \/ \E sym \in Symbols : SelectSymbol(sym)
    \/ handleStartBot
    \/ handleChargingMode
    \/ handleStopBot

SpecTrigger == InitDashboard /\ [][NextTrigger]_vars

(* Start-up at any route and the load of the page opened there, until     *)
(* logout; nothing is submitted and nobody navigates.  Every lookup and    *)
(* every request of a load is answered, and the first effect runs.         *)
NextLoading ==
    \/ AuthStep
    \/ LoadStep
    \/ HistoryPageStep
    \/ \E i \in 1..MaxAcctReqs, data \in AccountLists : FetchAccountsOk(i, data)
    \/ \E i \in 1..MaxAcctReqs : AccountFail(i)
    \/ \E i \in 1..MaxStratReqs, data \in StrategyRecords :
           FetchStrategiesOk(i, data)
    \/ \E i \in 1..MaxStratReqs : StrategyFail(i)

ResolveLookup(i) == VerifyOk(i) \/ VerifyFail(i)

ResolveLoad(i) ==
    \/ \E data \in AccountLists : LoadAccountsOk(i, data)
    \/ \E data \in StrategyLists : LoadStrategiesOk(i, data)
    \/ \E data \in Histories : LoadHistoryOk(i, data)
    \/ LoadFail(i)

ResolveHistory(i) ==
    \/ \E data \in Histories : FetchHistoryOk(i, data)
    \/ FetchHistoryFail(i)

ResolveAccounts(i) ==
    \/ \E data \in AccountLists : FetchAccountsOk(i, data)
    \/ AccountFail(i)

ResolveStrategies(i) ==
    \/ \E data \in StrategyRecords : FetchStrategiesOk(i, data)
    \/ StrategyFail(i)

(* Strong fairness: a response is due however often a full queue of the    *)
(* model holds the render that follows it back.                            *)
FairLoading ==
    /\ WF_vars(AppStart)
    /\ \A i \in 1..MaxLookups : SF_vars(ResolveLookup(i))
    /\ \A i \in 1..MaxLoads : SF_vars(ResolveLoad(i))
    /\ \A i \in 1..MaxHistReqs : SF_vars(ResolveHistory(i))
    /\ \A i \in 1..MaxAcctReqs : SF_vars(ResolveAccounts(i))
    /\ \A i \in 1..MaxStratReqs : SF_vars(ResolveStrategies(i))

SpecLoading == Init /\ [][NextLoading]_vars /\ FairLoading

(* The bot control of a loaded Dashboard, from the state that AppStart,    *)
(* the lookup and the three loads of a persisted token T1 lead to; every   *)
(* request of a run is answered and every timeout elapses.                 *)
InitRun ==
    /\ started = TRUE
    /\ stored = "T1"
    /\ token = "T1"
    /\ user = UserOf("T1")
    /\ loading = FALSE
    /\ lookups = <<>>
    /\ route = "/"
    /\ loginForm = InitLoginForm
    /\ loginReqs = <<>>
    /\ dash = [accounts |-> <<"A1", "A2">>, strategies |-> <<"S1", "S2">>,
               selectedAccount |-> "A1", selectedStrategy |-> "S1",
               isLoading |-> FALSE, error |-> "",
               tradingHistory |-> <<"H1">>, botRunning |-> FALSE,
               chartSymbol |-> "EURUSD"]
    /\ loads = <<>>
    /\ runs = <<>>
    /\ timers = <<>>
    /\ hist = InitHist
    /\ histReqs = <<>>
    /\ event = Ev("LoadHistoryOk", TRUE, "T1", "history")
    /\ mode = "idle"
    /\ reg = InitRegForm
    /\ regReqs = <<>>
    /\ accts = InitAccts
    /\ acctReqs = <<>>
    /\ strat = InitStrat
    /\ stratReqs = <<>>

NextRun == BotStep

ResolveRun(i) ==
    \/ TriggerOk(i)
    \/ \E data \in Histories : RunHistoryOk(i, data)
    \/ RunFail(i)

(* Strong fairness: a response is due however often a full timer queue of  *)
(* the model holds its handler back.                                       *)
FairRuns == \A i \in 1..MaxRuns : SF_vars(ResolveRun(i))

FairTimers == \A i \in 1..MaxTimers : WF_vars(TimerFires(i))

SpecRun == InitRun /\ [][NextRun]_vars /\ FairRuns /\ FairTimers

----------------------------------------------------------------------------
(* Session status.  The source keeps no status field; the four statuses of *)
(* the session are read off the AuthProvider's state: Unverified before    *)
(* the first effect has run, Invalid without a token, Verifying while a    *)
(* lookup for the held token is outstanding, Verified otherwise.           *)

Verifying == \E i \in 1..Len(lookups) : lookups[i] = token

Status ==
    IF ~started THEN "Unverified"
    ELSE IF token = None THEN "Invalid"
    ELSE IF Verifying THEN "Verifying"
    ELSE "Verified"

IsVerifyResult(e) == e.op \in {"VerifyOk", "VerifyFail"}

----------------------------------------------------------------------------
(* Session claims *)

(* C1: a lookup issued for a token that is no longer the held one, and     *)
(* that resolves after the lookup of the held token has succeeded, leaves  *)
(* token, user and persisted token as they are.                            *)
C1_StaleLookupDiscarded ==
    [][(/\ IsVerifyResult(event')
        /\ token # None
        /\ event'.tok # token
        /\ Status = "Verified"
        /\ user = UserOf(token)
        /\ stored = token)
       => (token' = token /\ user' = user /\ stored' = stored)]_vars

(* C2: after the catch branch of verifyToken has run, for the lookup of    *)
(* any token, the session holds no token, nothing is persisted, the status *)
(* is Invalid and loading is false.                                        *)
C2_FailedLookupClearsSession ==
    event.op = "VerifyFail"
        => (/\ token = None
            /\ stored = None
            /\ Status = "Invalid"
            /\ ~loading)

(* C2 witness: the lookup of the held, persisted token T1 has failed *)
C2_Witness ==
    /\ event.op = "VerifyFail"
    /\ event.tok = "T1"
    /\ token = None

(* C3: the user is present exactly when the status is Verified *)
C3_UserIffVerified == (user # None) <=> (Status = "Verified")

(* C4: ProtectedRoute is pending exactly when the status is Unverified or  *)
(* Verifying, and granted exactly when it is Verified.                     *)
C4_GateFollowsStatus ==
    /\ (Gate = "pending") <=> (Status \in {"Unverified", "Verifying"})
    /\ (Gate = "granted") <=> (Status = "Verified")

----------------------------------------------------------------------------
(* Dashboard claims *)

NoSelection == dash.selectedAccount = None \/ dash.selectedStrategy = None

IsStart(e) == e.op \in {"handleStartBot", "handleChargingMode"}

(* C5: handleStartBot or handleChargingMode called without an account or   *)
(* without a strategy sets the error to the select-first message, leaves   *)
(* botRunning false, issues no request and changes nothing else.           *)
C5_StartWithoutSelectionRejected ==
    [][(IsStart(event') /\ NoSelection)
       => (/\ dash' = [dash EXCEPT !.error = ErrSelect]
           /\ ~dash'.botRunning
           /\ UNCHANGED <<authVars, route, loginVars, loads, runs, timers,
                          histVars>>)]_vars

(* C5 witness: handleStartBot has run with an account and no strategy *)
C5_Witness ==
    /\ event.op = "handleStartBot"
    /\ dash.selectedAccount # None
    /\ dash.selectedStrategy = None
    /\ dash.error = ErrSelect
    /\ ~dash.botRunning
    /\ runs = <<>>

HistoryFetches(rs) == Cardinality({i \in 1..Len(rs) : rs[i].pc = "history"})

IsTriggerResult(e) ==
    e.op \in {"TriggerOk", "RunFail"} /\ e.pc = "trigger" /\ e.live

(* C6: when the trigger request of a run resolves, with success or with    *)
(* failure, the history re-fetch of that run is issued and the bot is      *)
(* still shown as running.                                                 *)
C6_RefetchAfterTrigger ==
    [][IsTriggerResult(event')
       => (/\ HistoryFetches(runs') = HistoryFetches(runs) + 1
           /\ dash'.botRunning)]_vars

PendingTriggers == {i \in 1..Len(runs) : runs[i].live /\ runs[i].pc = "trigger"}

(* C7: at most one trigger request is in flight *)
C7_AtMostOneTrigger == Cardinality(PendingTriggers) <= 1

(* C8: the default selections at the end of a load leave a selected        *)
(* account and a selected strategy as they are.                            *)
C8_DefaultsKeepSelection ==
    [][(event'.op = "LoadHistoryOk" /\ event'.live)
       => (/\ dash.selectedAccount # None
                => dash'.selectedAccount = dash.selectedAccount
           /\ dash.selectedStrategy # None
                => dash'.selectedStrategy = dash.selectedStrategy)]_vars

AllDead(s) == \A i \in 1..Len(s) : ~s[i].live

IsFetchResult(e) ==
    e.op \in {"FetchHistoryOk", "FetchHistoryFail", "LoadAccountsOk",
              "LoadStrategiesOk", "LoadHistoryOk", "LoadFail",
              "RunHistoryOk", "RunFail"}

(* C9: logout leaves every page closure that is waiting for a response     *)
(* without a live component and the history collections empty, and a       *)
(* response that arrives while the token is absent changes no collection.  *)
C9_LogoutDiscardsFetch ==
    [][/\ event'.op = "logout"
            => (/\ AllDead(loads') /\ AllDead(runs') /\ AllDead(histReqs')
                /\ dash'.tradingHistory = <<>>
                /\ hist'.tradingHistory = <<>>)
       /\ (IsFetchResult(event') /\ token = None)
            => (/\ dash'.tradingHistory = dash.tradingHistory
                /\ dash'.accounts = dash.accounts
                /\ dash'.strategies = dash.strategies
                /\ hist'.tradingHistory = hist.tradingHistory)]_vars

(* C9 witness: a history response has arrived after logout *)
C9_Witness ==
    /\ event.op \in {"FetchHistoryOk", "LoadHistoryOk"}
    /\ event.tok # None
    /\ token = None
    /\ ~event.live
    /\ dash.tradingHistory = <<>>
    /\ hist.tradingHistory = <<>>

NextStage(pc) == IF pc = "accounts" THEN "strategies" ELSE "history"

Continues(ls, e) ==
    \E j \in 1..Len(ls) :
        ls[j].live /\ ls[j].tok = e.tok /\ ls[j].pc = NextStage(e.pc)

(* C10: the three loads are independent: a response replaces its           *)
(* collection, and a failed accounts or strategies request does not keep   *)
(* the remaining requests from being made.                                 *)
C10_LoadsIndependent ==
    [][/\ (event'.op = "LoadAccountsOk" /\ event'.live)
            => \E j \in 1..Len(loads') :
                   loads'[j].accountsResponse = dash'.accounts
       /\ (event'.op = "LoadStrategiesOk" /\ event'.live)
            => \E j \in 1..Len(loads') :
                   loads'[j].strategiesResponse = dash'.strategies
       /\ (event'.op = "LoadFail" /\ event'.live /\ event'.pc # "history")
            => Continues(loads', event')]_vars

----------------------------------------------------------------------------
(* Login and logout claims *)

(* C11: a page issues its load of accounts, strategies and history, or of  *)
(* the history alone, only when the lookup of the held token has           *)
(* succeeded: not while the status is Verifying.                           *)
C11_LoadAfterVerified ==
    [][(Len(loads') > Len(loads) \/ Len(histReqs') > Len(histReqs))
       => Status' = "Verified"]_vars

LookupsFor(ls, t) == Cardinality({i \in 1..Len(ls) : ls[i] = t})

C13_FailedLoginLeavesSession ==
    [][event'.op = "LoginFail"
       => (/\ UNCHANGED <<token, user, stored, lookups, route>>
           /\ Len(loginReqs') = Len(loginReqs) - 1
           /\ event'.live
                => (loginForm'.error = ErrLogin /\ ~loginForm'.loading))]_vars

(* C13 witness: the login request of an unauthenticated session has failed *)
C13_Witness ==
    /\ event.op = "LoginFail"
    /\ event.live
    /\ token = None
    /\ stored = None
    /\ user = None
    /\ route = "/login"
    /\ loginForm = [error |-> ErrLogin, loading |-> FALSE]
    /\ loginReqs = <<>>

(* The session as AuthProvider and localStorage hold it, and what the      *)
(* three assignments of logout make of it                                  *)
Session == [token |-> token, user |-> user, stored |-> stored]

LogoutSession(s) ==
    [s EXCEPT !.token = None, !.user = None, !.stored = None]

(* C14: logout leaves token, user and persisted token absent, whatever     *)
(* they were; its assignments applied to the session it leaves change      *)
(* nothing; it issues no lookup, no login and no page request, and the     *)
(* effect that follows the change of token issues none either.             *)
C14_LogoutClearsSession ==
    [][event'.op = "logout"
       => (/\ Session' = LogoutSession(Session)
           /\ token' = None /\ user' = None /\ stored' = None
           /\ LogoutSession(Session') = Session'
           /\ lookups' = lookups
           /\ Len(loginReqs') = Len(loginReqs)
           /\ Len(loads') = Len(loads)
           /\ Len(runs') = Len(runs)
           /\ Len(histReqs') = Len(histReqs))]_vars

(* C14 witness: logout of a verified session while the lookup of an        *)
(* earlier token is still outstanding                                      *)
C14_Witness ==
    /\ event.op = "logout"
    /\ event.tok = "T2"
    /\ token = None
    /\ user = None
    /\ stored = None
    /\ route = "/login"
    /\ lookups = <<"T1">>

(* C15: a successful login writes the returned token to the persisted      *)
(* token, logout and a failed lookup remove it, and after each of the      *)
(* three the persisted token equals the token held.                        *)
C15_PersistedFollowsToken ==
    [][/\ event'.op = "LoginOk" => stored' = event'.tok
       /\ event'.op \in {"logout", "VerifyFail"} => stored' = None
       /\ event'.op \in {"LoginOk", "logout", "VerifyFail"}
            => stored' = token']_vars

(* C15 witness: T1 was verified, a login replaced it by T2 and persisted   *)
(* T2, and the lookup of T2 has failed.                                    *)
C15_Witness ==
    /\ event.op = "VerifyFail"
    /\ event.tok = "T2"
    /\ user = "u1"
    /\ stored = None
    /\ token = None

(* The catch blocks of the pages take every rejection alike, whatever its  *)
(* cause: the failure of a page request made with the held token is also   *)
(* what follows when the server rejects that token.                        *)
IsRejection(e) ==
    /\ e.op \in {"LoadFail", "RunFail", "FetchHistoryFail"}
    /\ e.live
    /\ e.tok # None

(* C16: when a request of a page is rejected, the session is cleared: the  *)
(* token is absent, the status is Invalid, ProtectedRoute denies and the   *)
(* router is at the login page.                                            *)
C16_RejectionClearsSession ==
    [][IsRejection(event')
       => (/\ token' = None
           /\ Status' = "Invalid"
           /\ GateOf(loading', token') = "denied"
           /\ route' = "/login")]_vars

----------------------------------------------------------------------------
(* Bot run claims *)

(* C17: handleStopBot sets botRunning to false in the same step, issues no *)
(* request and no timer, and leaves the selection, the accounts, the       *)
(* strategies, the trading history and the error as they are.              *)
C17_StopOnlyStops ==
    [][event'.op = "handleStopBot"
       => (/\ dash.botRunning
           /\ dash' = [dash EXCEPT !.botRunning = FALSE]
           /\ UNCHANGED <<authVars, route, loginVars, loads, runs, timers,
                          histVars>>)]_vars

(* C17 witness: the bot was stopped while its trigger request was pending  *)
(* and an earlier error was still shown.                                   *)
C17_Witness ==
    /\ event.op = "handleStopBot"
    /\ ~dash.botRunning
    /\ dash.error = ErrSelect
    /\ dash.selectedAccount = "A1"
    /\ dash.selectedStrategy = "S2"
    /\ Len(runs) = 1
    /\ runs[1].pc = "trigger"

(* C18: while the Dashboard stays mounted and shows no error (no request   *)
(* of a run has failed), botRunning goes from true to false only by        *)
(* handleStopBot: no timer and no response ends a run.                     *)
C18_OnlyStopEndsRunning ==
    [][(/\ dash.botRunning
        /\ dash.error = ""
        /\ ~dash'.botRunning
        /\ DashMounted')
       => event'.op = "handleStopBot"]_vars

(* A request of a charging run has just failed on the mounted Dashboard:   *)
(* the catch of handleChargingMode has set its error.                      *)
ChargingFailed ==
    /\ event.op = "RunFail"
    /\ event.live
    /\ dash.error = ErrCharging

(* C19: the failure of a charging run leaves botRunning as it is, and     *)
(* while botRunning is true by handleChargingMode after such a failure it  *)
(* becomes false only by handleStopBot.                                    *)
C19_FailedChargingStays ==
    [][/\ (event'.op = "RunFail" /\ event'.live /\ dash'.error = ErrCharging)
            => dash'.botRunning = dash.botRunning
       /\ (/\ ChargingFailed
           /\ mode = "charging"
           /\ ~dash'.botRunning
           /\ DashMounted')
            => event'.op = "handleStopBot"]_vars

AcceptedStart == IsStart(event) /\ mode # "idle"

(* C20: when the requests of every run are answered, a state with a run    *)
(* at an await leads to a state with none, unless a new run is started     *)
(* meanwhile; and a rejected request of a run on the mounted Dashboard     *)
(* ends its closure with the error of its handler set.                     *)
C20_RunsSettle ==
    /\ (runs # <<>>) ~> (runs = <<>> \/ AcceptedStart)
    /\ [][(event'.op = "RunFail" /\ event'.live)
            => (/\ dash'.error \in {ErrTrade, ErrCharging}
                /\ Len(runs') = Len(runs) - 1)]_vars

(* C20 witness: the trigger request of a charging run was rejected; the    *)
(* error is set, no request is pending and the bot is shown running.       *)
C20_Witness ==
    /\ event.op = "RunFail"
    /\ event.pc = "trigger"
    /\ mode = "charging"
    /\ dash.error = ErrCharging
    /\ dash.botRunning
    /\ runs = <<>>
    /\ timers = <<>>

C22_SuccessClearsError ==
    [][(/\ event'.op = "RunHistoryOk"
        /\ event'.live
        /\ mode = "start"
        /\ dash.error = ErrTrade
        /\ Len(runs) = 1
        /\ timers = <<>>)
       => dash'.error = ""]_vars

(* C23: a successful create appends the returned account to the accounts   *)
(* the page shows and a successful delete removes exactly the deleted id   *)
(* from them; every other entry stays, in its order.                       *)
C23_CrudAppliesRecord ==
    [][/\ (event'.op = "AccountCreateOk" /\ event'.live)
            => accts'.accounts = Append(accts.accounts, event'.pc)
       /\ (event'.op = "AccountDeleteOk" /\ event'.live)
            => accts'.accounts = Without(accts.accounts, event'.pc)]_vars

(* C24: no load of the Dashboard is issued for a token for which an        *)
(* earlier load of the same granted session has been issued and is still   *)
(* awaited.                                                                *)
C24_OneLoadPerSession ==
    [][(Len(loads') > Len(loads) /\ Gate = "granted" /\ token' = token)
       => \A i \in 1..Len(loads) : loads[i].tok # token]_vars

(* C29: when every request is answered and every timeout elapses, a run    *)
(* in charging mode leads to idle.                                         *)
C29_ChargingReverts == (mode = "charging") ~> (mode = "idle")

FirstOrNone(s) == IF Len(s) > 0 THEN s[1] ELSE None

(* C30: when the load of the mounted Dashboard has got its accounts and    *)
(* its strategies and ends, by the history response or by its failure,     *)
(* the selection is the first account and the first strategy loaded, or    *)
(* none for an empty list.                                                 *)
C30_DefaultsAfterLoad ==
    [][(/\ event'.op \in {"LoadHistoryOk", "LoadFail"}
        /\ event'.pc = "history"
        /\ event'.live)
       => (/\ dash'.selectedAccount = FirstOrNone(dash'.accounts)
           /\ dash'.selectedStrategy = FirstOrNone(dash'.strategies))]_vars

(* C28: a submit of the strategy form whose lower threshold is not below   *)
(* its upper threshold sends no request and leaves the strategies as they  *)
(* are.                                                                    *)
C28_ThresholdsValidated ==
    [][(/\ event'.op = "StrategySubmit"
        /\ ~(strat.formData.lower < strat.formData.upper))
       => (/\ stratReqs' = stratReqs
           /\ strat'.strategies = strat.strategies)]_vars

PagesOnlyBehindGate ==
    /\ (dash # InitDash \/ \E i \in 1..Len(loads) : loads[i].live)
            => (route = "/" /\ Gate = "granted")
    /\ (hist # InitHist \/ \E i \in 1..Len(histReqs) : histReqs[i].live)
            => (route = "/history" /\ Gate = "granted")
    /\ (accts # InitAccts \/ \E i \in 1..Len(acctReqs) : acctReqs[i].live)
            => (route = "/accounts" /\ Gate = "granted")
    /\ (strat # InitStrat \/ \E i \in 1..Len(stratReqs) : stratReqs[i].live)
            => (route = "/strategies" /\ Gate = "granted")

Requests ==
    <<lookups, loginReqs, regReqs, loads, runs, histReqs, acctReqs, stratReqs>>

(* C27: a Register submit whose two passwords differ sets the error of the *)
(* form, leaves it not in progress and issues no request; handleStartBot   *)
(* and handleChargingMode with a missing selection issue no request.       *)
C27_RefusedInClient ==
    [][/\ (event'.op = "RegisterSubmit" /\ event'.pc = "mismatch")
            => (/\ reg'.error = ErrPasswords
                /\ ~reg'.loading
                /\ Requests' = Requests)
       /\ (IsStart(event') /\ NoSelection)
            => (/\ Requests' = Requests
                /\ timers' = timers)]_vars

(* C27 witness: the Register form after a submit with differing passwords *)
C27_Witness ==
    /\ event.op = "RegisterSubmit"
    /\ event.pc = "mismatch"
    /\ route = "/register"
    /\ reg.error = ErrPasswords
    /\ ~reg.loading
    /\ regReqs = <<>>

(* A history response has just been applied to the mounted Dashboard *)
IsHistoryResult(e) == e.op \in {"LoadHistoryOk", "RunHistoryOk"} /\ e.live

(* C31: the trade history of the Dashboard is empty or one whole response  *)
(* of the server; a history response that arrives for the mounted          *)
(* Dashboard, from the load or from a run, replaces it by exactly that     *)
(* response, whichever request was issued first; no other step changes it  *)
(* while the Dashboard stays mounted.                                      *)
C31_HistoryIsLastResponse ==
    [][/\ dash'.tradingHistory \in Histories \cup {<<>>}
       /\ (event'.op = "LoadHistoryOk" /\ event'.live)
            => \A i \in 1..Len(loads), data \in Histories :
                 LoadHistoryOk(i, data) => dash'.tradingHistory = data
       /\ (event'.op = "RunHistoryOk" /\ event'.live)
            => \A i \in 1..Len(runs), data \in Histories :
                 RunHistoryOk(i, data) => dash'.tradingHistory = data
       /\ (~IsHistoryResult(event') /\ DashMounted /\ DashMounted')
            => dash'.tradingHistory = dash.tradingHistory]_vars

(* C31 witness: two runs overlapped at their history requests; one has     *)
(* been answered with <<H2, H1>>, which is the cache, the other is still   *)
(* awaited.                                                                *)
C31_Witness ==
    /\ event.op = "RunHistoryOk"
    /\ event.live
    /\ dash.tradingHistory = <<"H2", "H1">>
    /\ Len(runs) = 1
    /\ runs[1].live
    /\ runs[1].pc = "history"

(* C32: a create that succeeds right after a delete has succeeded, and a   *)
(* delete that succeeds right after a create has succeeded, neither drops  *)
(* nor brings back any other account of the page: as sets, the create adds *)
(* its record to the accounts held and the delete takes its id from them.  *)
C32_OverlapsCompose ==
    [][/\ (/\ event'.op = "AccountCreateOk"
           /\ event'.live
           /\ event.op = "AccountDeleteOk")
            => Range(accts'.accounts) = Range(accts.accounts) \cup {event'.pc}
       /\ (/\ event'.op = "AccountDeleteOk"
           /\ event'.live
           /\ event.op = "AccountCreateOk")
            => Range(accts'.accounts) = Range(accts.accounts) \ {event'.pc}]_vars

(* C33: a timeout that elapses during a charging run, which schedules no   *)
(* timeout itself, was scheduled by an earlier start run and leaves the    *)
(* charging run as it is.                                                  *)
C33_TimerEndsOwnRun ==
    [][(event'.op = "TimerFires" /\ mode = "charging")
       => (mode' = "charging" /\ dash'.botRunning)]_vars

(* C34: no user is present while the token is absent; in particular a      *)
(* lookup that was issued before a logout and succeeds after it leaves the *)
(* user absent.                                                            *)
C34_NoUserWithoutToken == token = None => user = None

(* C35: when the first effect runs and every lookup and every request of a *)
(* load is answered, the gate leaves pending, with or without a persisted  *)
(* token and whatever the lookup answers; the loading indicator of a       *)
(* rendered page is cleared (or the page left); and the step that ends a   *)
(* lookup or a load, by success or by failure, clears its indicator.       *)
C35_LoadingEnds ==
    /\ <>(Gate # "pending")
    /\ (DashMounted /\ dash.isLoading) ~> (~DashMounted \/ ~dash.isLoading)
    /\ (HistMounted /\ hist.isLoading) ~> (~HistMounted \/ ~hist.isLoading)
    /\ (AcctsMounted /\ accts.isLoading) ~> (~AcctsMounted \/ ~accts.isLoading)
    /\ (StratMounted /\ strat.isLoading) ~> (~StratMounted \/ ~strat.isLoading)
    /\ [][/\ IsVerifyResult(event') => ~loading'
          /\ (event'.op \in {"LoadHistoryOk", "LoadFail"} /\ event'.live)
                => ~dash'.isLoading
          /\ (event'.op \in {"FetchHistoryOk", "FetchHistoryFail"}
                /\ event'.live) => ~hist'.isLoading
          /\ (event'.op \in {"FetchAccountsOk", "AccountFail"}
                /\ event'.live) => ~accts'.isLoading
          /\ (event'.op \in {"FetchStrategiesOk", "StrategyFail"}
                /\ event'.live) => ~strat'.isLoading]_vars

(* C35 witness: the lookup of the persisted token succeeded, the Dashboard *)
(* was rendered and its load failed at the first request: the gate is      *)
(* granted, the indicator is cleared and the error is shown.               *)
C35_Witness ==
    /\ event.op = "LoadFail"
    /\ event.live
    /\ event.pc = "accounts"
    /\ DashMounted
    /\ ~dash.isLoading
    /\ dash.error = ErrLoad
    /\ loads = <<>>

(* The POST /simulate/trading that a handler must issue from the current   *)
(* selection, symbol and token                                             *)
ExpectedTrigger(flag) ==
    [account_id |-> dash.selectedAccount,
     strategy_id |-> dash.selectedStrategy,
     asset |-> dash.chartSymbol,
     charging_mode |-> flag,
     bearer |-> token]

(* C36: the trigger that handleStartBot issues carries the id of the       *)
(* selected account, the id of the selected strategy and the selected      *)
(* symbol, and no charging_mode; the one that handleChargingMode issues    *)
(* carries the same with charging_mode true; both carry the held token,    *)
(* and so does the closure that awaits the answer.                         *)
C36_TriggerCarriesSelection ==
    [][/\ (event'.op = "handleStartBot" /\ Len(runs') > Len(runs))
            => (/\ event'.req = ExpectedTrigger(None)
                /\ runs'[Len(runs')].tok = token)
       /\ (event'.op = "handleChargingMode" /\ Len(runs') > Len(runs))
            => (/\ event'.req = ExpectedTrigger("true")
                /\ runs'[Len(runs')].tok = token)
       /\ (IsStart(event') /\ Len(runs') > Len(runs))
            => (/\ event'.req.account_id \in Range(dash.accounts)
                /\ event'.req.strategy_id \in Range(dash.strategies)
                /\ event'.req.asset \in Symbols
                /\ event'.req.bearer \in Tokens)]_vars

(* C36 witness: Charging UP pressed after the second account and the       *)
(* second symbol were chosen, under token T2                               *)
C36_Witness ==
    /\ event.op = "handleChargingMode"
    /\ event.req = [account_id |-> "A2", strategy_id |-> "S1",
                    asset |-> "GBPUSD", charging_mode |-> "true",
                    bearer |-> "T2"]
    /\ Len(runs) = 1
    /\ runs[1].kind = "charging"
    /\ runs[1].tok = "T2"

NoDuplicates(s) == \A j, k \in 1..Len(s) : s[j] = s[k] => j = k

(* s[j] stands before s[k] in s *)
Before(s, a, b) ==
    \E j, k \in 1..Len(s) : j < k /\ s[j] = a /\ s[k] = b

(* The entries that two lists share stand in the same order in both *)
SameOrder(s, t) ==
    \A a, b \in Range(s) \cap Range(t) : Before(s, a, b) => Before(t, a, b)

(* The ids of a list of strategy records, in the order of the list *)
IdList(s) == [k \in 1..Len(s) |-> s[k].id]

(* C37: the accounts of the page and its strategies never hold an id twice, *)
(* whatever loads, creates, updates and deletes have succeeded and however  *)
(* they overlapped; no step changes the order of the entries that stay,    *)
(* and an entry that enters a list enters it at the end.                    *)
C37_UniqueInOrder ==
    /\ [](NoDuplicates(accts.accounts))
    /\ [](NoDuplicates(IdList(strat.strategies)))
    /\ [][/\ SameOrder(accts.accounts, accts'.accounts)
          /\ SameOrder(IdList(strat.strategies), IdList(strat'.strategies))
          /\ (event'.op = "AccountCreateOk" /\ event'.live)
                => (/\ accts'.accounts # <<>>
                    /\ accts'.accounts[Len(accts'.accounts)] = event'.pc
                    /\ event'.pc \notin Range(accts.accounts))
          /\ (/\ event'.op = "StrategySaveOk"
              /\ event'.live
              /\ event'.pc \notin StrategyIdsOf(strat.strategies)
              /\ event'.pc \in StrategyIdsOf(strat'.strategies))
                => IdList(strat'.strategies)[Len(strat'.strategies)]
                       = event'.pc]_vars

(* C37 witness: a create has been answered while a delete is awaited; the  *)
(* page lists three accounts, the created one last                         *)
C37_Witness ==
    /\ event.op = "AccountCreateOk"
    /\ event.live
    /\ accts.accounts = <<"A1", "A2", "A3">>
    /\ Len(acctReqs) = 1
    /\ acctReqs[1].op = "delete"
    /\ acctReqs[1].live

====
